---------------------------- MODULE Spec2Model ----------------------------
(***************************************************************************)
(* Model of the DatabaseKernel of the Ideas Textiles engine                *)
(* (src/unnamed/part_000): the in-memory store of products and orders, the *)
(* append-only journal file written through a BufferedWriter, the snapshot *)
(* file written at shutdown, the replay done by initialize(), and the      *)
(* request threads that run executeTransaction and the read operations.    *)
(*                                                                         *)
(* Quantities are Java doubles in the code.  The model counts them in      *)
(* halves (1 unit = 0.5), so that the seeded 100.5 metres is the integer   *)
(* 201 and every sum and difference below is exact.                        *)
(*                                                                         *)
(* UUID.randomUUID() is modelled by a counter of identifiers never handed  *)
(* out before: two generated identifiers are never equal.                  *)
(*                                                                         *)
(* The "ts" field of a journal entry (System.currentTimeMillis()) is read  *)
(* by nothing in the code and is left out of the entries.                  *)
(***************************************************************************)
EXTENDS Integers, Sequences, FiniteSets, TLC

\* ------------------------------------------------------------------ bounds

\* Number of request threads of the pool that run commands concurrently.
NumWorkers == 2

\* Number of executeTransaction calls submitted over the life of the system.
MaxCalls == 2

\* Number of times the process is started (initialize() is run).
MaxBoots == 2

\* ---------------------------------------------------- values of the program

Workers == 1..NumWorkers

\* Java's null reference, for the String fields that may hold it.
Null == "null"

\* An identifier that no entity ever carries (UUIDs are counted from 1).
NoSuchId == 0

\* seedInitialData: 10 of "S", 20 of "M", 100.5 of "Metros", in halves.
SeedS == 20

SeedM == 40

SeedMetros == 201

\* Quantities a caller puts in a STOCK_ADJUST payload (20 and -25).
InQtys == {40, -50}

\* Variants a caller names: one that is seeded and one that is not.
InVariants == {"M", "XL"}

\* Invoice and evidence values a caller puts in an ORDER_DISPATCH payload.
InInvoices == {"", "INV-100"}

InEvidences == {Null, "ev-1"}

\* Delivery dates a caller puts in an ORDER_CREATE payload.
InDates == {"2023-12-01", Null}

\* The "id" a caller puts in an ORDER_CREATE payload.  Generated identifiers
\* are counted from 1 and stay far below it.
InOrderId == 100

\* ------------------------------------------------------------------- state

VARIABLES
    phase,      \* "off": no process; "up": initialize() has returned
    bootResult, \* outcome of the last start: "none", "ok" or "fatal"
    boots,      \* number of starts so far
    products,   \* DatabaseKernel.products: id -> Product
    orders,     \* DatabaseKernel.orders: id -> Order
    uuid,       \* number of identifiers UUID.randomUUID() has produced
    aofFile,    \* content of the journal file: a sequence of tokens
    aofBuf,     \* characters held in aofWriter's buffer, as tokens
    aofOpen,    \* aofWriter: "null", "open" or "closed"
    dbFile,     \* content of the snapshot file
    lockOwner,  \* holder of lock.writeLock(), or 0
    readers,    \* number of holders of lock.readLock()
    sd,         \* position of the shutdown hook
    pc,         \* position of each request thread in executeTransaction
    cmd,        \* the command each request thread is running or ran last
    res,        \* how each thread's last call ended
    cur,        \* adjustStock's local "current" of each thread
    calls,      \* number of calls submitted so far
    rpc,        \* position of the reader of /api/sync
    rlist,      \* orders returned by getAllOrders, not yet serialized
    robs,       \* the order being serialized: fields read so far
    rout,       \* the last order serialized in full
    acked,      \* store as of the last call that returned normally
    runClean,   \* every call of this run so far has returned normally
    prev,       \* how the previous run ended, and its store at that point
    applied,    \* numbers of the calls of this run, in the order applyChange ran
    notified,   \* numbers of the calls of this run that broadcast has run for
    cal,        \* outcome of the last getCalendarMonth of this run
    stateOrders,      \* browser client (src/app.js): STATE.orders
    tempDispatchData, \* browser client: STATE.ui.tempDispatchData
    toast             \* browser client: the last message of Utils.showToast,
                      \* and the parity of the number of messages shown

vars == << phase, bootResult, boots, products, orders, uuid, aofFile, aofBuf,
           aofOpen, dbFile, lockOwner, readers, sd, pc, cmd, res, cur, calls,
           rpc, rlist, robs, rout, acked, runClean, prev, applied, notified, cal,
           stateOrders, tempDispatchData, toast >>

\* The state of the browser client; nothing of the engine reads or writes it.
browser == << stateOrders, tempDispatchData, toast >>


\* ------------------------------------------------------------ Domain layer

\* Product(sku, name, type): the constructor draws the id from randomUUID().
NewProduct(id, sku, name, type) ==
    [id |-> id, sku |-> sku, name |-> name, type |-> type, stock |-> <<>>]

\* Map.putIfAbsent(variant, 0.0) on a product's stock.
putIfAbsent(stock, variant) ==
    IF variant \in DOMAIN stock THEN stock ELSE (variant :> 0) @@ stock

\* The test of adjustStock that throws "Stock insuficiente".
InsufficientStockLe(isEntry, current, qty) == ~isEntry /\ current <= qty

InsufficientStock(isEntry, current, qty) == ~isEntry /\ current < qty

\* The value adjustStock puts back for the variant.
AdjustedQty(isEntry, current, qty) ==
    IF isEntry THEN current + qty ELSE current - qty

\* Product.adjustStock run as a whole: the product it leaves, and whether it
\* threw.  The putIfAbsent comes before the test, so it stays when it throws.
adjustStock(p, variant, qty, isEntry) ==
    LET s0 == putIfAbsent(p.stock, variant)
        current == s0[variant]
    IN  IF InsufficientStock(isEntry, current, qty)
        THEN [threw |-> TRUE, p |-> [p EXCEPT !.stock = s0]]
        ELSE [threw |-> FALSE,
              p |-> [p EXCEPT !.stock =
                        [s0 EXCEPT ![variant] = AdjustedQty(isEntry, current, qty)]]]

\* Order(oc, client, date): the constructor draws the id from randomUUID().
NewOrder(id, oc, client, date) ==
    [id |-> id, ocNumber |-> oc, clientName |-> client, deliveryDate |-> date,
     status |-> "PENDIENTE", invoiceNumber |-> Null, evidenceUrl |-> Null,
     items |-> <<>>]

\* A dispatch that tests the invoice only.
DispatchInvalidInvoiceOnly(invoice, evidence) == invoice = Null \/ invoice = ""

\* The two tests of Order.dispatch that throw.
DispatchInvalid(invoice, evidence) ==
    \/ invoice = Null \/ invoice = ""
    \/ evidence = Null \/ evidence = ""

\* Order.dispatch run as a whole, when it does not throw.
dispatch(o, invoice, evidence) ==
    [o EXCEPT !.invoiceNumber = invoice, !.evidenceUrl = evidence,
              !.status = "DESPACHADO"]

\* ------------------------------------------------ applyChange, as a whole

\* The store and the identifier counter, as applyChange reads and leaves them.
Store(ps, os, u) == [products |-> ps, orders |-> os, uuid |-> u]

EmptyStore(u) == Store(<<>>, <<>>, u)

\* DatabaseKernel.applyChange(type, payload) on store st: the store it leaves
\* and the exception it throws ("none" when it returns).
applyChange(st, type, payload) ==
    IF type = Null
    THEN \* switch on a null String
         [st |-> st, threw |-> "NullPointer"]
    ELSE IF type = "STOCK_ADJUST"
    THEN IF payload.productId \in DOMAIN st.products
         THEN LET r == adjustStock(st.products[payload.productId],
                                   payload.variant, payload.qty, payload.isEntry)
                  ps == [st.products EXCEPT ![payload.productId] = r.p]
              IN  [st |-> [st EXCEPT !.products = ps],
                   threw |-> IF r.threw THEN "InsufficientStock" ELSE "none"]
         ELSE [st |-> st, threw |-> "none"]
    ELSE IF type = "ORDER_CREATE"
    THEN LET id == st.uuid + 1
             o == NewOrder(id, payload.oc, payload.client, payload.date)
         IN  [st |-> [st EXCEPT !.orders = (id :> o) @@ st.orders, !.uuid = id],
              threw |-> "none"]
    ELSE IF type = "ORDER_DISPATCH"
    THEN IF payload.orderId \in DOMAIN st.orders
         THEN IF DispatchInvalid(payload.invoice, payload.evidence)
              THEN [st |-> st, threw |-> "Validation"]
              ELSE [st |-> [st EXCEPT !.orders[payload.orderId] =
                               dispatch(@, payload.invoice, payload.evidence)],
                    threw |-> "none"]
         ELSE [st |-> st, threw |-> "none"]
    ELSE [st |-> st, threw |-> "none"]

\* --------------------------------------------------------- the journal file

\* A journal line as executeTransaction builds it: type and payload of the
\* command.  cid numbers the call that wrote it; the code writes no such
\* field, and nothing of the program reads it.
LogEntry(c) ==
    [kind |-> "entry", type |-> c.type, payload |-> c.payload, cid |-> c.cid]

\* The line separator written by newLine().
NL == [kind |-> "nl"]

\* A proper, non-empty prefix of the text of an entry: what a write cut short
\* by a crash leaves in the file.
Trunc == [kind |-> "trunc"]

\* Index of the first line separator of f, or 0.
FirstNL(f) ==
    IF \E i \in 1..Len(f) : f[i].kind = "nl"
    THEN CHOOSE i \in 1..Len(f) :
             f[i].kind = "nl" /\ \A j \in 1..(i-1) : f[j].kind # "nl"
    ELSE 0

\* Files.readAllLines: the lines of f; a last line with no separator after it
\* is a line too.
RECURSIVE readAllLines(_)
readAllLines(f) ==
    IF f = <<>> THEN <<>>
    ELSE LET i == FirstNL(f)
         IN  IF i = 0 THEN <<f>>
             ELSE <<SubSeq(f, 1, i-1)>> \o readAllLines(SubSeq(f, i+1, Len(f)))

\* JsonEngine.parse(line): null for a blank line; an exception for a text cut
\* short; otherwise the first value of the line, whatever follows it.
parse(line) ==
    IF line = <<>> THEN [threw |-> FALSE, isMap |-> FALSE]
    ELSE IF line[1].kind = "trunc" THEN [threw |-> TRUE, isMap |-> FALSE]
    ELSE [threw |-> FALSE, isMap |-> TRUE, value |-> line[1]]

\* processCommand(commandObj): not a Map: nothing; else applyChange.
processCommand(st, obj) ==
    IF ~obj.isMap THEN [st |-> st, threw |-> "none"]
    ELSE applyChange(st, obj.value.type, obj.value.payload)

\* The replay loop of initialize(): the lines in order, stopping at the first
\* exception.
RECURSIVE replay(_, _)
replay(st, lines) ==
    IF lines = <<>> THEN [st |-> st, threw |-> "none"]
    ELSE LET obj == parse(Head(lines))
         IN  IF obj.threw THEN [st |-> st, threw |-> "IllegalArgument"]
             ELSE LET r == processCommand(st, obj)
                  IN  IF r.threw # "none" THEN r
                      ELSE replay(r.st, Tail(lines))

\* seedInitialData(): two products with fresh identifiers.
seedInitialData(st) ==
    LET id1 == st.uuid + 1
        id2 == st.uuid + 2
        a == NewProduct(id1, "POL-001", "Polera Corporativa Pique", "PRENDA")
        b == adjustStock(a, "S", SeedS, TRUE).p
        p1 == adjustStock(b, "M", SeedM, TRUE).p
        c == NewProduct(id2, "GAB-AZUL", "Tela Gabardina Azul", "TELA")
        p2 == adjustStock(c, "Metros", SeedMetros, TRUE).p
    IN  [st EXCEPT !.products = (id1 :> p1) @@ ((id2 :> p2) @@ st.products),
                   !.uuid = id2]

\* ------------------------------------------------------- the snapshot file

\* No such file.
NoFile == [kind |-> "none"]

\* A snapshot file whose text was cut short by a crash while it was written,
\* and one the crash left with no text at all (Files.writeString truncates
\* the file before it writes).
TornFile == [kind |-> "torn"]

EmptyFile == [kind |-> "empty"]

\* JsonEngine.toJson of an enum constant: serializePojo finds only static
\* fields in the enum class and writes "{}".
EnumJson == "{}"

\* serializePojo of an Order, field by field in declaration order.
OrderJson(o) == [o EXCEPT !.status = EnumJson]

\* serializePojo of a Product (lastUpdate left out, as in the store).
ProductJson(p) == [p EXCEPT !.type = EnumJson]

\* The text shutdown() writes: toJson(Map.of("products", ..., "orders", ...)).
SnapshotJson(ps, os) ==
    [kind |-> "snapshot",
     products |-> [i \in DOMAIN ps |-> ProductJson(ps[i])],
     orders |-> [i \in DOMAIN os |-> OrderJson(os[i])]]

\* Step 1 of initialize(): the snapshot is read and parsed, and the result is
\* dropped; only a text cut short matters, since parsing it throws.
SnapshotLoadThrows(f) == f.kind = "torn"


\* ------------------------------------------------------------ initial state

\* No command: what a thread holds before its first call.
NoCmd == [type |-> Null, payload |-> [none |-> TRUE], cid |-> 0]

\* No order: what the reader holds when it is not serializing one.
NoObs == [id |-> NoSuchId]

\* STATE.ui.tempDispatchData = null
NoTemp == [set |-> FALSE]

\* No call of getCalendarMonth so far.
NoCal == [state |-> "none"]

\* What is known of the run before the first start: nothing.
NoPrev ==
    [how |-> "none", clean |-> FALSE, idle |-> FALSE, settled |-> FALSE,
     products |-> <<>>, orders |-> <<>>]

\* The process has not been started; neither file exists.
Init ==
    /\ phase = "off"
    /\ bootResult = "none"
    /\ boots = 0
    /\ products = <<>>
    /\ orders = <<>>
    /\ uuid = 0
    /\ aofFile = <<>>
    /\ aofBuf = <<>>
    /\ aofOpen = "null"
    /\ dbFile = NoFile
    /\ lockOwner = 0
    /\ readers = 0
    /\ sd = "none"
    /\ pc = [t \in Workers |-> "idle"]
    /\ cmd = [t \in Workers |-> NoCmd]
    /\ res = [t \in Workers |-> "none"]
    /\ cur = [t \in Workers |-> 0]
    /\ calls = 0
    /\ rpc = "idle"
    /\ rlist = {}
    /\ robs = NoObs
    /\ rout = NoObs
    /\ acked = Store(<<>>, <<>>, 0)
    /\ runClean = FALSE
    /\ prev = NoPrev
    /\ applied = <<>>
    /\ notified = <<>>
    /\ cal = NoCal
    /\ stateOrders = <<>>
    /\ tempDispatchData = NoTemp
    /\ toast = [msg |-> "", seq |-> 0]

\* The memory of a process that is not running, or has just been started:
\* every thread and the reader at rest, the lock free.
FreshThreads ==
    /\ lockOwner' = 0
    /\ readers' = 0
    /\ sd' = "none"
    /\ pc' = [t \in Workers |-> "idle"]
    /\ cmd' = [t \in Workers |-> NoCmd]
    /\ res' = [t \in Workers |-> "none"]
    /\ cur' = [t \in Workers |-> 0]
    /\ rpc' = "idle"
    /\ rlist' = {}
    /\ robs' = NoObs
    /\ rout' = NoObs

\* ------------------------------------------------- main() and initialize()

\* The numbers of the calls whose entries the replay loop passes to
\* processCommand: the first value of each line that parses to a Map.
ReplayedCids(f) ==
    LET lines == readAllLines(f)
    IN  { parse(lines[i]).value.cid :
            i \in { j \in 1..Len(lines) : parse(lines[j]).isMap } }

\* A start whose replay emits a notification for an entry it applies.
StartNotifying ==
    /\ phase = "off"
    /\ boots' = boots + 1
    /\ LET r == replay(EmptyStore(uuid), readAllLines(aofFile))
           fatal == SnapshotLoadThrows(dbFile) \/ r.threw # "none"
           st == IF r.st.products = <<>> THEN seedInitialData(r.st) ELSE r.st
       IN  IF fatal
           THEN /\ bootResult' = "fatal"
                /\ uuid' = IF SnapshotLoadThrows(dbFile) THEN uuid ELSE r.st.uuid
                /\ UNCHANGED << phase, products, orders, aofOpen, acked, runClean,
                                notified >>
           ELSE /\ bootResult' = "ok"
                /\ phase' = "up"
                /\ products' = st.products
                /\ orders' = st.orders
                /\ uuid' = st.uuid
                /\ aofOpen' = "open"
                /\ acked' = Store(st.products, st.orders, 0)
                /\ runClean' = TRUE
                /\ notified' = IF ReplayedCids(aofFile) = {} THEN notified
                               ELSE << CHOOSE c \in ReplayedCids(aofFile) : TRUE >>
    /\ FreshThreads
    /\ UNCHANGED << aofFile, aofBuf, dbFile, calls, prev, browser, applied, cal >>

\* main(): initialize() on the empty maps of a new DatabaseKernel.  An
\* exception of initialize() ends the process (System.exit(1)).
Start ==
    /\ phase = "off"
    /\ boots' = boots + 1
    /\ LET r == replay(EmptyStore(uuid), readAllLines(aofFile))
           fatal == SnapshotLoadThrows(dbFile) \/ r.threw # "none"
           st == IF r.st.products = <<>> THEN seedInitialData(r.st) ELSE r.st
       IN  IF fatal
           THEN /\ bootResult' = "fatal"
                /\ uuid' = IF SnapshotLoadThrows(dbFile) THEN uuid ELSE r.st.uuid
                /\ UNCHANGED << phase, products, orders, aofOpen, acked, runClean >>
           ELSE /\ bootResult' = "ok"
                /\ phase' = "up"
                /\ products' = st.products
                /\ orders' = st.orders
                /\ uuid' = st.uuid
                /\ aofOpen' = "open"
                /\ acked' = Store(st.products, st.orders, 0)
                /\ runClean' = TRUE
    /\ FreshThreads
    /\ UNCHANGED << aofFile, aofBuf, dbFile, calls, prev, browser, applied, notified, cal >>

\* A start, as long as fewer than MaxBoots have been made.
Boot == boots < MaxBoots /\ Start


\* ------------------------------------------- /api/command: the commands sent

\* The product seeded as "POL-001", under the identifier it has in this run.
Polera == { i \in DOMAIN products : products[i].sku = "POL-001" }

\* The commands a client may send in the current state.  The identifiers it
\* names are those /api/sync shows it, or one that matches nothing; a command
\* on an identifier that matches nothing is sent with one payload only.
StockAdjusts ==
    { [type |-> "STOCK_ADJUST",
       payload |-> [productId |-> i, variant |-> v, qty |-> q, isEntry |-> e]] :
        i \in Polera, v \in InVariants, q \in InQtys, e \in BOOLEAN }
    \cup
    { [type |-> "STOCK_ADJUST",
       payload |-> [productId |-> NoSuchId, variant |-> "M", qty |-> 40,
                    isEntry |-> FALSE]] }

OrderCreates ==
    { [type |-> "ORDER_CREATE",
       payload |-> [id |-> InOrderId, client |-> "ACME", oc |-> "O1",
                    date |-> d]] : d \in InDates }

OrderDispatches ==
    { [type |-> "ORDER_DISPATCH",
       payload |-> [orderId |-> i, invoice |-> n, evidence |-> v]] :
        i \in DOMAIN orders, n \in InInvoices, v \in InEvidences }
    \cup
    { [type |-> "ORDER_DISPATCH",
       payload |-> [orderId |-> NoSuchId, invoice |-> "INV-100",
                    evidence |-> "ev-1"]] }

\* A type that applyChange's switch does not list, and a request with no
\* "action" at all.
OtherCommands ==
    { [type |-> ty, payload |-> [none |-> TRUE]] : ty \in {"PING", Null} }

InCommands == StockAdjusts \cup OrderCreates \cup OrderDispatches \cup OtherCommands

\* ------------------------------------------------------ executeTransaction

\* An exception inside the try block: control goes to the catch clause.
Throw(t, e) ==
    /\ pc' = [pc EXCEPT ![t] = "catch"]
    /\ res' = [res EXCEPT ![t] = e]

Goto(t, l) == pc' = [pc EXCEPT ![t] = l]

\* The handler of /api/command calls executeTransaction(action, payload) on
\* a request thread that is free.
Submit(t, c) ==
    /\ phase = "up"
    /\ sd = "none"
    /\ pc[t] = "idle"
    /\ calls' = calls + 1
    /\ cmd' = [cmd EXCEPT ![t] = [type |-> c.type, payload |-> c.payload,
                                  cid |-> calls + 1]]
    /\ res' = [res EXCEPT ![t] = "running"]
    /\ Goto(t, "lock")
    /\ UNCHANGED << phase, bootResult, boots, products, orders, uuid, aofFile,
                    aofBuf, aofOpen, dbFile, lockOwner, readers, sd, cur,
                    rpc, rlist, robs, rout, acked, runClean, prev, browser, applied, notified, cal >>

\* A call, as long as fewer than MaxCalls have been submitted.
Call(t, c) == calls < MaxCalls /\ Submit(t, c)

\* The guard of lock.writeLock().lock(): no writer and no reader holds it.
WriteLockFreeAlways(t) == TRUE

WriteLockFree(t) == lockOwner = 0 /\ readers = 0

\* An acquisition that does not wait for the lock to be free.
AcquireNoLock(t) ==
    /\ phase = "up"
    /\ pc[t] = "lock"
    /\ lockOwner' = t
    /\ Goto(t, "apply")
    /\ UNCHANGED << phase, bootResult, boots, products, orders, uuid, aofFile,
                    aofBuf, aofOpen, dbFile, readers, sd, cmd, res, cur, calls,
                    rpc, rlist, robs, rout, acked, runClean, prev, browser, applied, notified, cal >>

\* lock.writeLock().lock()
Acquire(t) ==
    /\ phase = "up"
    /\ pc[t] = "lock"
    /\ WriteLockFree(t)
    /\ lockOwner' = t
    /\ Goto(t, "apply")
    /\ UNCHANGED << phase, bootResult, boots, products, orders, uuid, aofFile,
                    aofBuf, aofOpen, dbFile, readers, sd, cmd, res, cur, calls,
                    rpc, rlist, robs, rout, acked, runClean, prev, browser, applied, notified, cal >>

\* applyChange, STOCK_ADJUST, up to the test of adjustStock: putIfAbsent,
\* the read of "current", and the test.
ApplyStock(t) ==
    LET pl == cmd[t].payload
    IN  /\ cmd[t].type = "STOCK_ADJUST"
        /\ IF pl.productId \in DOMAIN products
           THEN LET s0 == putIfAbsent(products[pl.productId].stock, pl.variant)
                IN  /\ products' = [products EXCEPT ![pl.productId].stock = s0]
                    /\ cur' = [cur EXCEPT ![t] = s0[pl.variant]]
                    /\ IF InsufficientStock(pl.isEntry, s0[pl.variant], pl.qty)
                       THEN Throw(t, "InsufficientStock")
                       ELSE Goto(t, "put") /\ UNCHANGED res
           ELSE Goto(t, "write") /\ UNCHANGED << products, cur, res >>
        /\ UNCHANGED << orders, uuid >>

\* applyChange, ORDER_CREATE: a new Order under a fresh identifier.
ApplyCreate(t) ==
    LET pl == cmd[t].payload
        id == uuid + 1
    IN  /\ cmd[t].type = "ORDER_CREATE"
        /\ uuid' = id
        /\ orders' = (id :> NewOrder(id, pl.oc, pl.client, pl.date)) @@ orders
        /\ Goto(t, "write")
        /\ UNCHANGED << products, cur, res >>

\* A dispatch that assigns invoiceNumber before it tests its arguments.
ApplyDispatchAssignFirst(t) ==
    LET pl == cmd[t].payload
    IN  /\ cmd[t].type = "ORDER_DISPATCH"
        /\ IF pl.orderId \in DOMAIN orders
           THEN /\ orders' = [orders EXCEPT ![pl.orderId].invoiceNumber = pl.invoice]
                /\ IF DispatchInvalid(pl.invoice, pl.evidence)
                   THEN Throw(t, "Validation")
                   ELSE Goto(t, "disp_ev") /\ UNCHANGED res
           ELSE Goto(t, "write") /\ UNCHANGED << orders, res >>
        /\ UNCHANGED << products, uuid, cur >>

\* applyChange, ORDER_DISPATCH, up to the first assignment of dispatch: the
\* lookup, the two tests, and invoiceNumber.
ApplyDispatch(t) ==
    LET pl == cmd[t].payload
    IN  /\ cmd[t].type = "ORDER_DISPATCH"
        /\ IF pl.orderId \in DOMAIN orders
           THEN IF DispatchInvalid(pl.invoice, pl.evidence)
                THEN Throw(t, "Validation") /\ UNCHANGED orders
                ELSE /\ orders' = [orders EXCEPT ![pl.orderId].invoiceNumber = pl.invoice]
                     /\ Goto(t, "disp_ev")
                     /\ UNCHANGED res
           ELSE Goto(t, "write") /\ UNCHANGED << orders, res >>
        /\ UNCHANGED << products, uuid, cur >>

\* An applyChange that refuses every type its switch does not list.
ApplyOtherThrows(t) ==
    /\ cmd[t].type \notin {"STOCK_ADJUST", "ORDER_CREATE", "ORDER_DISPATCH"}
    /\ Throw(t, IF cmd[t].type = Null THEN "NullPointer" ELSE "Validation")
    /\ UNCHANGED << products, orders, uuid, cur >>

\* applyChange on a type the switch does not list, or on null.
ApplyOther(t) ==
    /\ cmd[t].type \notin {"STOCK_ADJUST", "ORDER_CREATE", "ORDER_DISPATCH"}
    /\ IF cmd[t].type = Null
       THEN Throw(t, "NullPointer")
       ELSE Goto(t, "write") /\ UNCHANGED res
    /\ UNCHANGED << products, orders, uuid, cur >>

\* A write-ahead variant of the call below: the entry is put in the journal
\* before applyChange has accepted the command.
ApplyJournalFirst(t) ==
    /\ phase = "up"
    /\ pc[t] = "apply"
    /\ \/ ApplyStock(t)
       \/ ApplyCreate(t)
       \/ ApplyDispatch(t)
       \/ ApplyOther(t)
    /\ applied' = Append(applied, cmd[t].cid)
    /\ aofFile' = aofFile \o << LogEntry(cmd[t]), NL >>
    /\ UNCHANGED << phase, bootResult, boots, aofBuf, aofOpen, dbFile,
                    lockOwner, readers, sd, cmd, calls, rpc, rlist, robs, rout,
                    acked, runClean, prev, browser, notified, cal >>

\* The call of applyChange(type, payload) that opens the try block.
Apply(t) ==
    /\ phase = "up"
    /\ pc[t] = "apply"
    /\ \/ ApplyStock(t)
       \/ ApplyCreate(t)
       \/ ApplyDispatch(t)
       \/ ApplyOther(t)
    /\ applied' = Append(applied, cmd[t].cid)
    /\ UNCHANGED << phase, bootResult, boots, aofFile, aofBuf, aofOpen, dbFile,
                    lockOwner, readers, sd, cmd, calls, rpc, rlist, robs, rout,
                    acked, runClean, prev, browser, notified, cal >>

\* adjustStock: this.stock.put(variant, ...) with the "current" read before.
Put(t) ==
    LET pl == cmd[t].payload
    IN  /\ phase = "up"
        /\ pc[t] = "put"
        /\ products' = [products EXCEPT ![pl.productId].stock[pl.variant] =
                           AdjustedQty(pl.isEntry, cur[t], pl.qty)]
        /\ Goto(t, "write")
        /\ UNCHANGED << phase, bootResult, boots, orders, uuid, aofFile, aofBuf,
                        aofOpen, dbFile, lockOwner, readers, sd, cmd, res, cur,
                        calls, rpc, rlist, robs, rout, acked, runClean, prev, browser, applied, notified, cal >>

\* dispatch: this.evidenceUrl = evidence
DispatchEvidence(t) ==
    LET pl == cmd[t].payload
    IN  /\ phase = "up"
        /\ pc[t] = "disp_ev"
        /\ orders' = [orders EXCEPT ![pl.orderId].evidenceUrl = pl.evidence]
        /\ Goto(t, "disp_st")
        /\ UNCHANGED << phase, bootResult, boots, products, uuid, aofFile, aofBuf,
                        aofOpen, dbFile, lockOwner, readers, sd, cmd, res, cur,
                        calls, rpc, rlist, robs, rout, acked, runClean, prev, browser, applied, notified, cal >>

\* A dispatch that puts an order already dispatched back to PENDIENTE.
DispatchStatusToggles(t) ==
    LET pl == cmd[t].payload
    IN  /\ phase = "up"
        /\ pc[t] = "disp_st"
        /\ orders' = [orders EXCEPT ![pl.orderId].status =
                         IF @ = "DESPACHADO" THEN "PENDIENTE" ELSE "DESPACHADO"]
        /\ Goto(t, "write")
        /\ UNCHANGED << phase, bootResult, boots, products, uuid, aofFile, aofBuf,
                        aofOpen, dbFile, lockOwner, readers, sd, cmd, res, cur,
                        calls, rpc, rlist, robs, rout, acked, runClean, prev, browser,
                        applied, notified, cal >>

\* dispatch: this.status = OrderStatus.DESPACHADO
DispatchStatus(t) ==
    LET pl == cmd[t].payload
    IN  /\ phase = "up"
        /\ pc[t] = "disp_st"
        /\ orders' = [orders EXCEPT ![pl.orderId].status = "DESPACHADO"]
        /\ Goto(t, "write")
        /\ UNCHANGED << phase, bootResult, boots, products, uuid, aofFile, aofBuf,
                        aofOpen, dbFile, lockOwner, readers, sd, cmd, res, cur,
                        calls, rpc, rlist, robs, rout, acked, runClean, prev, browser, applied, notified, cal >>

\* aofWriter.write(JsonEngine.toJson(logEntry)): into the writer's buffer, or
\* an IOException when shutdown() has closed the writer.
Write(t) ==
    /\ phase = "up"
    /\ pc[t] = "write"
    /\ IF aofOpen = "open"
       THEN /\ aofBuf' = Append(aofBuf, LogEntry(cmd[t]))
            /\ Goto(t, "newline")
            /\ UNCHANGED res
       ELSE Throw(t, "IOException") /\ UNCHANGED aofBuf
    /\ UNCHANGED << phase, bootResult, boots, products, orders, uuid, aofFile,
                    aofOpen, dbFile, lockOwner, readers, sd, cmd, cur, calls,
                    rpc, rlist, robs, rout, acked, runClean, prev, browser, applied, notified, cal >>

\* aofWriter.newLine()
NewLine(t) ==
    /\ phase = "up"
    /\ pc[t] = "newline"
    /\ IF aofOpen = "open"
       THEN /\ aofBuf' = Append(aofBuf, NL)
            /\ Goto(t, "flush")
            /\ UNCHANGED res
       ELSE Throw(t, "IOException") /\ UNCHANGED aofBuf
    /\ UNCHANGED << phase, bootResult, boots, products, orders, uuid, aofFile,
                    aofOpen, dbFile, lockOwner, readers, sd, cmd, cur, calls,
                    rpc, rlist, robs, rout, acked, runClean, prev, browser, applied, notified, cal >>

\* aofWriter.flush(): the buffer goes to the file.
Flush(t) ==
    /\ phase = "up"
    /\ pc[t] = "flush"
    /\ IF aofOpen = "open"
       THEN /\ aofFile' = aofFile \o aofBuf
            /\ aofBuf' = <<>>
            /\ Goto(t, "notify")
            /\ UNCHANGED res
       ELSE Throw(t, "IOException") /\ UNCHANGED << aofFile, aofBuf >>
    /\ UNCHANGED << phase, bootResult, boots, products, orders, uuid, aofOpen,
                    dbFile, lockOwner, readers, sd, cmd, cur, calls, rpc, rlist,
                    robs, rout, acked, runClean, prev, browser, applied, notified, cal >>

\* WebSocketKernel.broadcast raises a throwable (as its body stands, an
\* allocation failure while the message text is built): the call is inside
\* the try block, so control leaves it as for any other failure.
BroadcastFails(t) ==
    /\ phase = "up"
    /\ pc[t] = "notify"
    /\ Throw(t, "NotificationFailure")
    /\ UNCHANGED << phase, bootResult, boots, products, orders, uuid, aofFile,
                    aofBuf, aofOpen, dbFile, lockOwner, readers, sd, cmd, cur,
                    calls, rpc, rlist, robs, rout, acked, runClean, prev, browser, applied, notified, cal >>

\* WebSocketKernel.broadcast("UPDATE", type): builds a message and drops it.
Broadcast(t) ==
    /\ phase = "up"
    /\ pc[t] = "notify"
    /\ Goto(t, "unlock")
    /\ notified' = Append(notified, cmd[t].cid)
    /\ UNCHANGED << phase, bootResult, boots, products, orders, uuid, aofFile,
                    aofBuf, aofOpen, dbFile, lockOwner, readers, sd, cmd, res,
                    cur, calls, rpc, rlist, robs, rout, acked, runClean, prev, browser,
                    applied, cal >>

\* The finally clause after a normal end of the try block; the call returns.
Return(t) ==
    /\ phase = "up"
    /\ pc[t] = "unlock"
    /\ lockOwner' = 0
    /\ Goto(t, "idle")
    /\ res' = [res EXCEPT ![t] = "ok"]
    /\ acked' = Store(products, orders, 0)
    /\ UNCHANGED << phase, bootResult, boots, products, orders, uuid, aofFile,
                    aofBuf, aofOpen, dbFile, readers, sd, cmd, cur, calls, rpc,
                    rlist, robs, rout, runClean, prev, browser, applied, notified, cal >>

\* A catch clause that is not followed by the release of the lock.
CatchKeepsLock(t) ==
    /\ phase = "up"
    /\ pc[t] = "catch"
    /\ Goto(t, "idle")
    /\ runClean' = FALSE
    /\ UNCHANGED << phase, bootResult, boots, products, orders, uuid, aofFile,
                    aofBuf, aofOpen, dbFile, lockOwner, readers, sd, cmd, res,
                    cur, calls, rpc, rlist, robs, rout, acked, prev, browser, applied,
                    notified, cal >>

\* The catch clause (log, rethrow as RuntimeException) and the finally
\* clause; the call ends with the exception.
Catch(t) ==
    /\ phase = "up"
    /\ pc[t] = "catch"
    /\ lockOwner' = 0
    /\ Goto(t, "idle")
    /\ runClean' = FALSE
    /\ UNCHANGED << phase, bootResult, boots, products, orders, uuid, aofFile,
                    aofBuf, aofOpen, dbFile, readers, sd, cmd, res, cur, calls,
                    rpc, rlist, robs, rout, acked, prev, browser, applied, notified, cal >>


\* ------------------------------------------------------ the shutdown hook

\* shutdown(): aofWriter.close(), which writes the buffer out first.  The
\* hook runs after httpServer.stop(0): no new request is taken, the calls in
\* progress go on.  Nothing here takes the lock.
ShutdownClose ==
    /\ phase = "up"
    /\ sd = "none"
    /\ aofFile' = aofFile \o aofBuf
    /\ aofBuf' = <<>>
    /\ aofOpen' = "closed"
    /\ sd' = "snap"
    /\ UNCHANGED << phase, bootResult, boots, products, orders, uuid, dbFile,
                    lockOwner, readers, pc, cmd, res, cur, calls, rpc, rlist,
                    robs, rout, acked, runClean, prev, browser, applied, notified, cal >>

\* shutdown(): Files.writeString(DB_FILE_PATH, toJson(products, orders)).
\* asOf is the length of the journal when the snapshot is written; the code
\* writes no such field, and nothing of the program reads it.
ShutdownSnapshot ==
    /\ phase = "up"
    /\ sd = "snap"
    /\ dbFile' = [SnapshotJson(products, orders) EXCEPT !.kind = "snapshot"]
                    @@ [asOf |-> Len(aofFile)]
    /\ sd' = "halt"
    /\ UNCHANGED << phase, bootResult, boots, products, orders, uuid, aofFile,
                    aofBuf, aofOpen, lockOwner, readers, pc, cmd, res, cur,
                    calls, rpc, rlist, robs, rout, acked, runClean, prev, browser, applied, notified, cal >>

\* The end of a process: its memory is gone, the two files stay.  prev keeps
\* how it ended: whether every call so far had returned normally (clean),
\* whether no call was in progress (idle), whether no call was between the
\* end of its flush and its return (settled), and the store as of the last
\* normal return.
EndRun(how) ==
    /\ phase' = "off"
    /\ bootResult' = "none"
    /\ products' = <<>>
    /\ orders' = <<>>
    /\ aofBuf' = <<>>
    /\ aofOpen' = "null"
    /\ acked' = Store(<<>>, <<>>, 0)
    /\ runClean' = FALSE
    /\ applied' = <<>>
    /\ notified' = <<>>
    /\ cal' = NoCal
    /\ prev' = [how |-> how,
                clean |-> runClean,
                idle |-> \A t \in Workers : pc[t] = "idle",
                settled |-> \A t \in Workers : pc[t] \notin {"notify", "unlock"},
                products |-> IF runClean THEN acked.products ELSE <<>>,
                orders |-> IF runClean THEN acked.orders ELSE <<>>]
    /\ FreshThreads
    /\ UNCHANGED << boots, uuid, calls, browser >>

\* The JVM halts when the shutdown hook has run, whatever the request
\* threads are doing.
Halt ==
    /\ phase = "up"
    /\ sd = "halt"
    /\ EndRun("halt")
    /\ UNCHANGED << aofFile, dbFile >>

\* The process is killed: at any point.
Crash ==
    /\ phase = "up"
    /\ EndRun("crash")
    /\ UNCHANGED << aofFile, dbFile >>

\* The machine stops while flush() is writing the buffer: a proper prefix of
\* the line is in the file, cut inside the entry or just before the line
\* separator.
CrashTornJournal ==
    /\ phase = "up"
    /\ aofOpen = "open"
    /\ \E t \in Workers : pc[t] = "flush"
    /\ \E cut \in {Trunc, aofBuf[1]} : aofFile' = Append(aofFile, cut)
    /\ EndRun("crash")
    /\ UNCHANGED dbFile

\* The machine stops while shutdown() is writing the snapshot file.
CrashTornSnapshot ==
    /\ phase = "up"
    /\ sd = "snap"
    /\ \E f \in {TornFile, EmptyFile} : dbFile' = f
    /\ EndRun("crash")
    /\ UNCHANGED aofFile

\* ------------------------------------------------------- /api/sync reader

\* A field of an order the serializer has not read yet.
Unread == "unread"

\* A variant of getAllOrders that empties the store's map of orders.
GetAllOrdersDrains ==
    /\ phase = "up"
    /\ rpc = "idle"
    /\ lockOwner = 0
    /\ readers' = readers + 1
    /\ rlist' = DOMAIN orders
    /\ orders' = <<>>
    /\ rout' = NoObs
    /\ rpc' = "locked"
    /\ UNCHANGED << phase, bootResult, boots, products, uuid, aofFile,
                    aofBuf, aofOpen, dbFile, lockOwner, sd, pc, cmd, res, cur,
                    calls, robs, acked, runClean, prev, browser, applied, notified, cal >>

\* getAllOrders(): the read lock, new ArrayList<>(orders.values()): a list
\* of references to the Order objects of the store.
GetAllOrders ==
    /\ phase = "up"
    /\ rpc = "idle"
    /\ lockOwner = 0
    /\ readers' = readers + 1
    /\ rlist' = DOMAIN orders
    /\ rout' = NoObs
    /\ rpc' = "locked"
    /\ UNCHANGED << phase, bootResult, boots, products, orders, uuid, aofFile,
                    aofBuf, aofOpen, dbFile, lockOwner, sd, pc, cmd, res, cur,
                    calls, robs, acked, runClean, prev, browser, applied, notified, cal >>

\* getAllOrders(): the finally clause releases the read lock.
ReadUnlock ==
    /\ phase = "up"
    /\ rpc = "locked"
    /\ readers' = readers - 1
    /\ rpc' = "ser"
    /\ UNCHANGED << phase, bootResult, boots, products, orders, uuid, aofFile,
                    aofBuf, aofOpen, dbFile, lockOwner, sd, pc, cmd, res, cur,
                    calls, rlist, robs, rout, acked, runClean, prev, browser, applied, notified, cal >>

\* sendJsonResponse -> toJson -> serializePojo(order): the fields up to
\* status are read (those before it never change; status is written "{}").
SerializeStatus(o) ==
    /\ phase = "up"
    /\ rpc = "ser"
    /\ o \in rlist
    /\ robs' = [OrderJson(orders[o]) EXCEPT !.invoiceNumber = Unread,
                                            !.evidenceUrl = Unread]
    /\ rpc' = "ser_inv"
    /\ UNCHANGED << phase, bootResult, boots, products, orders, uuid, aofFile,
                    aofBuf, aofOpen, dbFile, lockOwner, readers, sd, pc, cmd,
                    res, cur, calls, rlist, rout, acked, runClean, prev, browser, applied, notified, cal >>

\* serializePojo(order): field invoiceNumber is read.
SerializeInvoice ==
    /\ phase = "up"
    /\ rpc = "ser_inv"
    /\ robs' = [robs EXCEPT !.invoiceNumber = orders[robs.id].invoiceNumber]
    /\ rpc' = "ser_ev"
    /\ UNCHANGED << phase, bootResult, boots, products, orders, uuid, aofFile,
                    aofBuf, aofOpen, dbFile, lockOwner, readers, sd, pc, cmd,
                    res, cur, calls, rlist, rout, acked, runClean, prev, browser, applied, notified, cal >>

\* serializePojo(order): field evidenceUrl is read; the order is written.
SerializeEvidence ==
    /\ phase = "up"
    /\ rpc = "ser_ev"
    /\ rout' = [robs EXCEPT !.evidenceUrl = orders[robs.id].evidenceUrl]
    /\ robs' = NoObs
    /\ rlist' = rlist \ {robs.id}
    /\ rpc' = "ser"
    /\ UNCHANGED << phase, bootResult, boots, products, orders, uuid, aofFile,
                    aofBuf, aofOpen, dbFile, lockOwner, readers, sd, pc, cmd,
                    res, cur, calls, acked, runClean, prev, browser, applied, notified, cal >>

\* The response is sent: every order of the list has been written.
SyncDone ==
    /\ phase = "up"
    /\ rpc = "ser"
    /\ rlist = {}
    /\ rpc' = "idle"
    /\ UNCHANGED << phase, bootResult, boots, products, orders, uuid, aofFile,
                    aofBuf, aofOpen, dbFile, lockOwner, readers, sd, pc, cmd,
                    res, cur, calls, rlist, robs, rout, acked, runClean, prev, browser, applied, notified, cal >>

\* getAllProducts(): the read lock, new ArrayList<>(products.values()).
GetAllProducts ==
    /\ phase = "up"
    /\ rpc = "idle"
    /\ lockOwner = 0
    /\ readers' = readers + 1
    /\ rpc' = "products"
    /\ UNCHANGED << phase, bootResult, boots, products, orders, uuid, aofFile,
                    aofBuf, aofOpen, dbFile, lockOwner, sd, pc, cmd, res, cur,
                    calls, rlist, robs, rout, acked, runClean, prev, browser, applied,
                    notified, cal >>

\* getAllProducts(): the finally clause releases the read lock.
ProductsUnlock ==
    /\ phase = "up"
    /\ rpc = "products"
    /\ readers' = readers - 1
    /\ rpc' = "idle"
    /\ UNCHANGED << phase, bootResult, boots, products, orders, uuid, aofFile,
                    aofBuf, aofOpen, dbFile, lockOwner, sd, pc, cmd, res, cur,
                    calls, rlist, robs, rout, acked, runClean, prev, browser, applied,
                    notified, cal >>

\* The months a caller asks getCalendarMonth for, each with its days in ISO
\* form.  The months are cut to their first two days.
InMonths ==
    [m \in {"2023-12", "2024-01"} |->
        IF m = "2023-12" THEN {"2023-12-01", "2023-12-02"}
                         ELSE {"2024-01-01", "2024-01-02"}]

\* getCalendarMonth(year, month): the read lock is taken.
CalendarLock(m) ==
    /\ phase = "up"
    /\ rpc = "idle"
    /\ lockOwner = 0
    /\ readers' = readers + 1
    /\ rpc' = "calendar"
    /\ cal' = [state |-> "running", month |-> m]
    /\ UNCHANGED << phase, bootResult, boots, products, orders, uuid, aofFile,
                    aofBuf, aofOpen, dbFile, lockOwner, sd, pc, cmd, res, cur,
                    calls, rlist, robs, rout, acked, runClean, prev, browser, applied,
                    notified >>

\* getCalendarMonth: for each day of the month, the orders o with
\* o.getDeliveryDate().equals(iso); the call on a null delivery date throws
\* NullPointerException.  The finally clause releases the read lock.
CalendarScan ==
    /\ phase = "up"
    /\ rpc = "calendar"
    /\ readers' = readers - 1
    /\ rpc' = "idle"
    /\ cal' = IF \E i \in DOMAIN orders : orders[i].deliveryDate = Null
              THEN [state |-> "threw", month |-> cal.month]
              ELSE [state |-> "ok", month |-> cal.month,
                    days |-> [d \in InMonths[cal.month] |->
                                { i \in DOMAIN orders : orders[i].deliveryDate = d }]]
    /\ UNCHANGED << phase, bootResult, boots, products, orders, uuid, aofFile,
                    aofBuf, aofOpen, dbFile, lockOwner, sd, pc, cmd, res, cur,
                    calls, rlist, robs, rout, acked, runClean, prev, browser, applied,
                    notified >>

\* ------------------------------------------------- browser client (app.js)

\* Number of orders created from the order modal.
MaxClientOrders == 2

\* The variables of the engine; nothing of the browser client touches them.
engine == << phase, bootResult, boots, products, orders, uuid, aofFile, aofBuf,
             aofOpen, dbFile, lockOwner, readers, sd, pc, cmd, res, cur, calls,
             rpc, rlist, robs, rout, acked, runClean, prev, applied, notified,
             cal >>

\* dispatchData: null
NoDispatch == [set |-> FALSE]

\* What the user types as invoice number, and the file chosen in the photo
\* input (Null: no file chosen).
ClientInvoices == {"", "F-1", "F-2"}

ClientPhotos == {Null, "photo-1"}

\* Utils.showToast(msg)
showToast(m) == toast' = [msg |-> m, seq |-> 1 - toast.seq]

\* Utils.generateID('ORD'): an identifier no order has.
generateID == Cardinality(DOMAIN stateOrders) + 1

\* OrdersModule.saveOrder(orderData): the payload written to orders/<id>.
\* The order modal passes no dispatchData, so the payload carries null.
\* The write succeeds (the 'value' listener then updates STATE.orders) or
\* fails.
saveOrder(id, status, ok) ==
    IF ok
    THEN /\ stateOrders' = (id :> [id |-> id, status |-> status,
                                   dispatchData |-> NoDispatch])
                               @@ [i \in DOMAIN stateOrders \ {id} |-> stateOrders[i]]
         /\ showToast("Orden guardada exitosamente")
    ELSE /\ showToast("Error al guardar orden")
         /\ UNCHANGED stateOrders

\* UIRenderer.openOrderModal(): the save callback of the modal for a new
\* order, with or without item rows.
SaveNewOrder(hasItems, ok) ==
    /\ Cardinality(DOMAIN stateOrders) < MaxClientOrders
    /\ IF hasItems
       THEN saveOrder(generateID, "PROCESS", ok)
       ELSE showToast("Debe agregar al menos un producto") /\ UNCHANGED stateOrders
    /\ UNCHANGED << tempDispatchData, engine >>

\* UIRenderer.openOrderModal(orderId): the save callback of the modal for an
\* existing order; the status comes from the select of the form.
SaveEditedOrder(i, status, hasItems, ok) ==
    /\ i \in DOMAIN stateOrders
    /\ IF hasItems
       THEN saveOrder(i, status, ok)
       ELSE showToast("Debe agregar al menos un producto") /\ UNCHANGED stateOrders
    /\ UNCHANGED << tempDispatchData, engine >>

\* DispatchModule.initDispatchConfig(orderId): the save callback of the
\* configuration modal.
InitDispatchConfig(i, invoice) ==
    /\ i \in DOMAIN stateOrders
    /\ IF invoice = ""
       THEN showToast("Nº Factura es obligatorio") /\ UNCHANGED tempDispatchData
       ELSE /\ tempDispatchData' = [set |-> TRUE, orderId |-> i, invoice |-> invoice]
            /\ UNCHANGED toast
    /\ UNCHANGED << stateOrders, engine >>

\* The photo an order's dispatchData holds, or Null.
StoredPhoto(o) == IF o.dispatchData.set THEN o.dispatchData.photo ELSE Null

\* DispatchModule.finalizeDispatch(), with the file chosen in the photo
\* input, and the write succeeding or failing.
FinalizeDispatch(photo, ok) ==
    /\ tempDispatchData.set
    /\ LET order == stateOrders[tempDispatchData.orderId]
       IN  IF photo = Null /\ StoredPhoto(order) = Null
           THEN /\ showToast("Foto del despacho (tipo Mercado Libre) es obligatoria")
                /\ UNCHANGED << stateOrders, tempDispatchData >>
           ELSE IF ok
           THEN /\ stateOrders' =
                      [stateOrders EXCEPT ![order.id] =
                          [id |-> order.id, status |-> "DISPATCHED",
                           dispatchData |->
                              [set |-> TRUE, invoice |-> tempDispatchData.invoice,
                               photo |-> IF photo # Null THEN photo
                                         ELSE StoredPhoto(order)]]]
                /\ showToast("Despacho Registrado. Generando Tachas...")
                /\ tempDispatchData' = NoTemp
           ELSE /\ showToast("Error al finalizar despacho")
                /\ UNCHANGED << stateOrders, tempDispatchData >>
    /\ UNCHANGED engine

\* ---------------------------------------------------------- specifications

\* One step of a request thread inside executeTransaction.
Step(t) ==
    \/ Acquire(t)
    \/ Apply(t)
    \/ Put(t)
    \/ DispatchEvidence(t)
    \/ DispatchStatus(t)
    \/ Write(t)
    \/ NewLine(t)
    \/ Flush(t)
    \/ Broadcast(t)
    \/ Return(t)
    \/ Catch(t)

\* The whole life of the system: starts, commands, shutdowns and crashes.
Next ==
    \/ Boot
    \/ \E t \in Workers : \E c \in InCommands : Call(t, c)
    \/ \E t \in Workers : Step(t)
    \/ ShutdownClose
    \/ ShutdownSnapshot
    \/ Halt
    \/ Crash
    \/ CrashTornJournal
    \/ CrashTornSnapshot

Spec == Init /\ [][Next]_vars


\* Amounts of the concurrent withdrawals (5, 15 and 20).
DecQtys == {10, 30, 40}

\* A thread's only call: a withdrawal of q of "M" from the product POL-001.
CallDecrement(t, q) ==
    /\ res[t] = "none"
    /\ \E i \in Polera :
          Call(t, [type |-> "STOCK_ADJUST",
                   payload |-> [productId |-> i, variant |-> "M", qty |-> q,
                                isEntry |-> FALSE]])

\* One start, then every request thread withdraws once from the same variant
\* of the same product, in any interleaving.
NextDec ==
    \/ Boot
    \/ \E t \in Workers : \E q \in DecQtys : CallDecrement(t, q)
    \/ \E t \in Workers :
          \/ Acquire(t)
          \/ Apply(t)
          \/ Put(t)
          \/ Write(t)
          \/ NewLine(t)
          \/ Flush(t)
          \/ Broadcast(t)
          \/ Return(t)
          \/ Catch(t)

SpecDec == Init /\ [][NextDec]_vars

\* One start, then commands from the request threads while a client reads
\* /api/sync; no shutdown and no crash.
NextSync ==
    \/ Boot
    \/ \E t \in Workers : \E c \in InCommands : Call(t, c)
    \/ \E t \in Workers : Step(t)
    \/ GetAllOrders
    \/ ReadUnlock
    \/ \E o \in rlist : SerializeStatus(o)
    \/ SerializeInvoice
    \/ SerializeEvidence
    \/ SyncDone

SpecSync == Init /\ [][NextSync]_vars

\* Number of calls submitted in the order scenarios: enough to create an
\* order and dispatch it twice.
MaxOrderCalls == 3

\* Invoice numbers of the order scenarios: a second one, so that a second
\* dispatch can carry another invoice than the first.
OrderInvoices == InInvoices \cup {"INV-200"}

\* The commands of the order scenarios: creations, and dispatches of the
\* orders the store holds.
OrderCommands ==
    OrderCreates
    \cup
    { [type |-> "ORDER_DISPATCH",
       payload |-> [orderId |-> i, invoice |-> n, evidence |-> v]] :
        i \in DOMAIN orders, n \in OrderInvoices, v \in InEvidences }

CallOrder(t, c) == calls < MaxOrderCalls /\ Submit(t, c)

\* One start, then creations and dispatches of orders from the request
\* threads, in any interleaving; no shutdown and no crash.
NextOrders ==
    \/ Boot
    \/ \E t \in Workers : \E c \in OrderCommands : CallOrder(t, c)
    \/ \E t \in Workers :
          \/ Acquire(t)
          \/ Apply(t)
          \/ DispatchEvidence(t)
          \/ DispatchStatus(t)
          \/ Write(t)
          \/ NewLine(t)
          \/ Flush(t)
          \/ Broadcast(t)
          \/ Return(t)
          \/ Catch(t)

SpecOrders == Init /\ [][NextOrders]_vars

\* One start, then commands from the request threads, with notifications
\* that may fail; no shutdown and no crash.
NextNotify ==
    \/ Boot
    \/ \E t \in Workers : \E c \in InCommands : Call(t, c)
    \/ \E t \in Workers : Step(t)
    \/ \E t \in Workers : BroadcastFails(t)

SpecNotify == Init /\ [][NextNotify]_vars

\* One start, then commands from the request threads while a client calls
\* the three read operations; no shutdown and no crash.
NextReads ==
    \/ Boot
    \/ \E t \in Workers : \E c \in InCommands : Call(t, c)
    \/ \E t \in Workers : Step(t)
    \/ GetAllProducts
    \/ ProductsUnlock
    \/ GetAllOrders
    \/ ReadUnlock
    \/ \E o \in rlist : SerializeStatus(o)
    \/ SerializeInvoice
    \/ SerializeEvidence
    \/ SyncDone
    \/ \E m \in DOMAIN InMonths : CalendarLock(m)
    \/ CalendarScan

SpecReads == Init /\ [][NextReads]_vars

\* Number of starts in the restart scenarios: two runs that write to the
\* journal, and a third start that replays what they wrote.
MaxReplayBoots == 3

\* The command of the restart scenarios.
ReplayCommand ==
    [type |-> "ORDER_CREATE",
     payload |-> [id |-> InOrderId, client |-> "ACME", oc |-> "O1",
                  date |-> "2023-12-01"]]

BootReplay == boots < MaxReplayBoots /\ Start

\* Runs that create orders and end by shutdown or crash, and the starts
\* that follow them.
NextReplay ==
    \/ BootReplay
    \/ \E t \in Workers : Call(t, ReplayCommand)
    \/ \E t \in Workers :
          \/ Acquire(t)
          \/ Apply(t)
          \/ Write(t)
          \/ NewLine(t)
          \/ Flush(t)
          \/ Broadcast(t)
          \/ Return(t)
          \/ Catch(t)
    \/ ShutdownClose
    \/ ShutdownSnapshot
    \/ Halt
    \/ Crash
    \/ CrashTornJournal

SpecReplay == Init /\ [][NextReplay]_vars

\* One start, then commands from the request threads and a reader of the
\* products; the shutdown hook may close the journal writer under them.
NextLive ==
    \/ Boot
    \/ \E t \in Workers : \E c \in InCommands : Call(t, c)
    \/ \E t \in Workers : Step(t)
    \/ GetAllProducts
    \/ ProductsUnlock
    \/ ShutdownClose

\* Every thread inside executeTransaction goes on running; a thread waiting
\* for the write lock gets it if the lock is free again and again (waiting
\* writers are queued ahead of arriving readers); a reader goes on to its
\* finally clause.
SpecLive ==
    /\ Init
    /\ [][NextLive]_vars
    /\ \A t \in Workers : WF_vars(Step(t)) /\ SF_vars(Acquire(t))
    /\ WF_vars(ProductsUnlock)

\* The browser client alone: orders saved from the order modal, dispatches
\* configured and finalized, in any order.
NextClient ==
    \/ \E h, ok \in BOOLEAN : SaveNewOrder(h, ok)
    \/ \E i \in DOMAIN stateOrders, st \in {"PROCESS", "DISPATCHED"},
          h, ok \in BOOLEAN : SaveEditedOrder(i, st, h, ok)
    \/ \E i \in DOMAIN stateOrders, n \in ClientInvoices : InitDispatchConfig(i, n)
    \/ \E f \in ClientPhotos, ok \in BOOLEAN : FinalizeDispatch(f, ok)

SpecClient == Init /\ [][NextClient]_vars

\* ------------------------------------------------------------------ claims

\* initialize() has returned and no command has been submitted since.
JustBooted ==
    /\ phase = "up"
    /\ bootResult = "ok"
    /\ sd = "none"
    /\ \A t \in Workers : pc[t] = "idle" /\ res[t] = "none"

\* The calls that ended with an exception of applyChange.
Rejections == {"InsufficientStock", "Validation", "NullPointer"}

\* C1: write-ahead discipline, in the case the claim ends on: when the
\* journal write or flush of a call has failed, products and orders are as
\* they were before the call (every earlier call of the run having returned
\* normally, that is the store as of the last return).
C1_WriteAhead ==
    \A t \in Workers :
        (runClean /\ pc[t] = "catch" /\ res[t] = "IOException")
            => (products = acked.products /\ orders = acked.orders)

\* C2: determinism of recovery.  After a run in which every command returned
\* normally and at least one was journaled, initialize() rebuilds products
\* and orders identical to the store that run had.
C2_RecoveryDeterminism ==
    (JustBooted /\ prev.how # "none" /\ prev.clean /\ prev.idle /\ aofFile # <<>>)
        => (products = prev.products /\ orders = prev.orders)

\* restore(snapshot): the store is replaced by the content of the snapshot.
restore(f) == Store(f.products, f.orders, uuid)

\* The journal entries written after position k.
JournalAfter(k) == SubSeq(aofFile, k + 1, Len(aofFile))

\* C3: recovery equivalence.  When the snapshot on disk was taken at journal
\* position asOf by a run whose commands had all returned normally, the store
\* recovered at start (the replay of the whole journal from the empty store)
\* equals the snapshot restored and the entries after asOf replayed on it.
\* Stores are compared as they are written to a snapshot.
C3_RecoveryEquivalence ==
    (JustBooted /\ dbFile.kind = "snapshot" /\ prev.how = "halt"
                /\ prev.clean /\ prev.idle /\ aofFile # <<>>)
        => LET r == replay(restore(dbFile), readAllLines(JournalAfter(dbFile.asOf)))
           IN  SnapshotJson(products, orders)
                   = SnapshotJson(r.st.products, r.st.orders)

\* An order without its identifier.
Anonymous(o) == [o EXCEPT !.id = NoSuchId]

\* What a store holds, whatever the identifiers: the stock of each SKU, and
\* how many orders there are of each content.
Content(ps, os) ==
    [stock |-> { << ps[i].sku, ps[i].stock >> : i \in DOMAIN ps },
     orders |-> [r \in { Anonymous(os[i]) : i \in DOMAIN os } |->
                    Cardinality({ i \in DOMAIN os : Anonymous(os[i]) = r })]]

\* C4: crash durability.  After a crash of a run whose calls had all returned
\* normally or were still before the end of their flush, the next start
\* completes, and the recovered store holds what the store held as of the
\* last call that had returned (identifiers aside).  The crashes that cut
\* the snapshot file short are left aside: the claim is about the journal.
C4_CrashDurability ==
    (prev.how = "crash" /\ prev.clean /\ prev.settled /\ bootResult # "none"
                        /\ dbFile.kind # "torn")
        => /\ bootResult = "ok"
           /\ JustBooted =>
                Content(products, orders) = Content(prev.products, prev.orders)

\* C5: no variant quantity of any product is negative.
C5_NonNegativeStock ==
    \A i \in DOMAIN products :
        \A v \in DOMAIN products[i].stock : products[i].stock[v] >= 0

\* The amounts of the withdrawals of threads 1..n that returned normally.
RECURSIVE AcceptedUpTo(_)
AcceptedUpTo(n) ==
    IF n = 0 THEN 0
    ELSE AcceptedUpTo(n - 1) + (IF res[n] = "ok" THEN cmd[n].payload.qty ELSE 0)

\* C6: concurrent withdrawals from one variant.  The amounts of the calls
\* that returned normally sum to at most the seeded quantity, every call
\* that ended otherwise ended with the insufficient-stock error, and the
\* quantity is never negative.
C6_ConcurrentDecrements ==
    /\ AcceptedUpTo(NumWorkers) <= SeedM
    /\ \A t \in Workers : res[t] \in {"none", "running", "ok", "InsufficientStock"}
    /\ \A i \in Polera : products[i].stock["M"] >= 0

\* C6 witness: two withdrawals have ended, one accepted and one refused.
C6_Witness ==
    \E t, u \in Workers :
        /\ pc[t] = "idle" /\ res[t] = "ok"
        /\ pc[u] = "idle" /\ res[u] = "InsufficientStock"
        /\ lockOwner = 0

\* C7: no partial visibility.  An order written by /api/sync shows either
\* neither the invoice nor the evidence of a dispatch, or both.
C7_NoPartialDispatch ==
    rout.id # NoSuchId =>
        ((rout.invoiceNumber = Null) <=> (rout.evidenceUrl = Null))

\* The journal tokens of call number k, in the file or in the writer's buffer.
EntriesOf(k) ==
    { i \in 1..Len(aofFile) : aofFile[i].kind = "entry" /\ aofFile[i].cid = k }
    \cup { Len(aofFile) + i : i \in { j \in 1..Len(aofBuf) :
                                      aofBuf[j].kind = "entry" /\ aofBuf[j].cid = k } }

\* C8: rejected commands are not journaled.  A call that applyChange ended
\* with an exception has no entry in the journal.
C8_RejectedNotJournaled ==
    \A t \in Workers : res[t] \in Rejections => EntriesOf(cmd[t].cid) = {}

\* C8 witness: a call has been rejected and has returned, and the journal
\* holds the entry of another call.
C8_Witness ==
    \E t \in Workers :
        /\ pc[t] = "idle"
        /\ res[t] \in Rejections
        /\ \E i \in 1..Len(aofFile) : aofFile[i].kind = "entry"

\* C9: a withdrawal refused for insufficient stock leaves every product's
\* variant-to-quantity mapping as it was.
C9_RefusedLeavesStock ==
    [][ \A t \in Workers :
            (pc[t] = "apply" /\ pc'[t] = "catch" /\ res'[t] = "InsufficientStock")
                => products' = products ]_vars

\* The quantity adjustStock finds for variant v of product i.
CurrentQty(i, v) ==
    IF v \in DOMAIN products[i].stock THEN products[i].stock[v] ELSE 0

C12_DispatchedHasInvoiceAndEvidence ==
    \A i \in DOMAIN orders :
        orders[i].status = "DESPACHADO"
            => /\ orders[i].invoiceNumber \notin {Null, ""}
               /\ orders[i].evidenceUrl \notin {Null, ""}

\* C12 witness: an order has been dispatched and the call has returned.
C12_Witness ==
    \E t \in Workers :
        /\ pc[t] = "idle" /\ res[t] = "ok" /\ cmd[t].type = "ORDER_DISPATCH"
        /\ cmd[t].payload.orderId \in DOMAIN orders
        /\ orders[cmd[t].payload.orderId].status = "DESPACHADO"

\* C13: an ORDER_DISPATCH on an order whose status is DESPACHADO is rejected,
\* and the order keeps the invoice number and the evidence reference of the
\* first dispatch.
C13_RedispatchRejected ==
    [][ \A t \in Workers :
            (/\ pc[t] = "apply" /\ pc'[t] # "apply"
             /\ cmd[t].type = "ORDER_DISPATCH"
             /\ cmd[t].payload.orderId \in DOMAIN orders
             /\ orders[cmd[t].payload.orderId].status = "DESPACHADO")
                => (pc'[t] = "catch" /\ orders' = orders) ]_vars

\* C14: an ORDER_DISPATCH whose orderId matches no order does not return
\* normally and has no entry in the journal.
C14_AbsentOrderDispatch ==
    \A t \in Workers :
        (cmd[t].type = "ORDER_DISPATCH" /\ cmd[t].payload.orderId \notin DOMAIN orders)
            => (res[t] # "ok" /\ EntriesOf(cmd[t].cid) = {})

\* C15: an ORDER_DISPATCH on an existing order with a null or empty invoice
\* or evidence ends with the validation error, and neither applyChange nor
\* the rest of the failed call changes any order.
C15_InvalidDispatchChangesNothing ==
    [][ \A t \in Workers :
          LET pl == cmd[t].payload
          IN  /\ (/\ pc[t] = "apply" /\ pc'[t] # "apply"
                  /\ cmd[t].type = "ORDER_DISPATCH"
                  /\ pl.orderId \in DOMAIN orders
                  /\ (pl.invoice \in {Null, ""} \/ pl.evidence \in {Null, ""}))
                    => (pc'[t] = "catch" /\ res'[t] = "Validation" /\ orders' = orders)
              /\ (pc[t] = "catch" /\ res[t] = "Validation" /\ pc'[t] = "idle")
                    => (orders' = orders /\ res'[t] = "Validation") ]_vars

\* C15 witness: a dispatch with an empty invoice has just been refused on an
\* order that is already DESPACHADO.
C15_Witness ==
    \E t \in Workers :
        /\ pc[t] = "catch" /\ res[t] = "Validation"
        /\ cmd[t].payload.invoice = ""
        /\ orders[cmd[t].payload.orderId].status = "DESPACHADO"

\* C16: applying ORDER_CREATE stores the order under the id of the payload;
\* when that id is already in the store, the command is refused and the
\* orders stay as they were.
C16_CreateUsesPayloadId ==
    [][ \A t \in Workers :
          LET id == cmd[t].payload.id
          IN  (pc[t] = "apply" /\ pc'[t] # "apply" /\ cmd[t].type = "ORDER_CREATE")
                => IF id \in DOMAIN orders
                   THEN pc'[t] = "catch" /\ orders' = orders
                   ELSE /\ DOMAIN orders' = DOMAIN orders \cup {id}
                        /\ orders'[id].id = id ]_vars

\* The numbers of the calls that have an entry in the journal (file, then
\* writer's buffer), in the order of the entries.
JournalCids ==
    LET j == aofFile \o aofBuf
        IsEntry(e) == e.kind = "entry"
        es == SelectSeq(j, IsEntry)
    IN  [i \in 1..Len(es) |-> es[i].cid]

\* The elements of a sequence.
Range(q) == { q[i] : i \in 1..Len(q) }

C18_JournalSequenceNumbers ==
    LET IsEntry(e) == e.kind = "entry"
        es == SelectSeq(aofFile \o aofBuf, IsEntry)
    IN  \A i \in 1..Len(es) : "seq" \in DOMAIN es[i] /\ es[i].seq = i

\* C19: no thread is in WebSocketKernel.broadcast while it holds the write
\* lock.
C19_NotifyOutsideLock ==
    \A t \in Workers : pc[t] = "notify" => lockOwner # t

\* C20: a call whose command has been applied and whose entry has been
\* flushed to the journal file reports success, whatever the notification
\* did.
C20_NotifyFailureIsNotFailure ==
    \A t \in Workers :
        (/\ pc[t] = "idle" /\ res[t] # "none"
         /\ \E i \in 1..Len(aofFile) :
               aofFile[i].kind = "entry" /\ aofFile[i].cid = cmd[t].cid)
            => res[t] = "ok"


\* The numbers of the calls that have an entry in journal file f.
AllCids(f) == { f[i].cid : i \in { j \in 1..Len(f) : f[j].kind = "entry" } }

\* C21: replay failure is fatal and no entry is silently skipped.  When
\* initialize() has returned, no line of the journal failed to decode, and
\* every entry of the journal was passed to processCommand.
C21_ReplayFailureIsFatal ==
    JustBooted =>
        /\ \A i \in 1..Len(readAllLines(aofFile)) :
              ~parse(readAllLines(aofFile)[i]).threw
        /\ ReplayedCids(aofFile) = AllCids(aofFile)

\* C22: the snapshot is taken at an exact boundary.  When shutdown() writes
\* the snapshot, no call is between the start of its applyChange and the end
\* of its flush, and none has failed on the journal after applying.
C22_SnapshotAtBoundary ==
    [][ (sd = "snap" /\ sd' = "halt")
            => \A t \in Workers :
                  /\ pc[t] \notin {"put", "disp_ev", "disp_st", "write",
                                   "newline", "flush"}
                  /\ ~(pc[t] = "catch" /\ res[t] = "IOException") ]_vars

\* C23: read operations never mutate.  Every step of getAllProducts,
\* getAllOrders, getCalendarMonth and of the serialization of their results
\* leaves products, orders and the journal as they were.
C23_ReadsNeverMutate ==
    [][ (rpc' # rpc \/ cal' # cal \/ readers' # readers)
            => UNCHANGED << products, orders, aofFile, aofBuf >> ]_vars

\* C23 witness: getCalendarMonth has returned its result on a store that
\* holds an order, after the three read operations were available.
C23_Witness ==
    /\ cal.state = "ok"
    /\ rpc = "idle"
    /\ orders # <<>>
    /\ \E d \in DOMAIN cal.days : cal.days[d] # {}

\* C24: entities exist only as effects of commands.  When initialize() has
\* returned, the store holds what the journal's commands put there, applied
\* in order to the empty store, and nothing else (identifiers aside).
C24_EntitiesFromCommands ==
    JustBooted =>
        LET r == replay(EmptyStore(0), readAllLines(aofFile))
        IN  Content(products, orders) = Content(r.st.products, r.st.orders)

\* C25: no notifications during replay.  A notification is emitted only by
\* a thread at the broadcast call of executeTransaction, for its own command,
\* after applyChange has run for it and its entry is in the journal file; a
\* start emits none.
C25_NoNotifyDuringReplay ==
    [][ notified' # notified
            => \/ phase' = "off" /\ notified' = <<>>
               \/ \E t \in Workers :
                     /\ phase = "up" /\ pc[t] = "notify"
                     /\ notified' = Append(notified, cmd[t].cid)
                     /\ cmd[t].cid \in Range(applied)
                     /\ cmd[t].cid \in AllCids(aofFile) ]_vars

\* C25 witness: the second run has emitted a notification for a command of
\* its own, and none for the entry it replayed at start.
C25_Witness ==
    /\ boots = 2
    /\ phase = "up"
    /\ notified # <<>>
    /\ \E c \in AllCids(aofFile) : c \notin Range(notified)

\* The command of thread t matches nothing: its type is none of the three,
\* or it names a product or an order that the store does not hold.
MatchesNothing(t) ==
    \/ cmd[t].type \notin {"STOCK_ADJUST", "ORDER_CREATE", "ORDER_DISPATCH"}
    \/ cmd[t].type = "STOCK_ADJUST" /\ cmd[t].payload.productId \notin DOMAIN products
    \/ cmd[t].type = "ORDER_DISPATCH" /\ cmd[t].payload.orderId \notin DOMAIN orders

\* A call of thread t is between its submission and its return.
InCall(t) == pc[t] # "idle"

C28_CalendarAvailable ==
    [][ (runClean /\ rpc = "calendar" /\ rpc' = "idle")
            => /\ cal'.state = "ok"
               /\ cal'.days = [d \in InMonths[cal.month] |->
                                 { i \in DOMAIN orders : orders[i].deliveryDate = d }]
       ]_vars

\* C29: restart does not duplicate or drop orders.  When initialize() has
\* returned after a shutdown (or for the first time), the store holds as
\* many orders as the journal holds ORDER_CREATE entries.
C29_OrdersMatchCreateEntries ==
    (JustBooted /\ prev.how \in {"none", "halt"}) =>
        Cardinality(DOMAIN orders)
            = Cardinality({ i \in 1..Len(aofFile) :
                              /\ aofFile[i].kind = "entry"
                              /\ aofFile[i].type = "ORDER_CREATE" })


\* C30: browser client dispatch guard.  Every write that stores an order
\* with status DISPATCHED stores it with dispatchData holding a non-empty
\* invoice and a photo; and when finalizeDispatch asks for the photo, it
\* writes nothing and keeps tempDispatchData.
C30_ClientDispatchGuard ==
    [][ /\ \A i \in DOMAIN stateOrders' :
              (i \notin DOMAIN stateOrders \/ stateOrders'[i] # stateOrders[i])
                 => (stateOrders'[i].status = "DISPATCHED"
                       => /\ stateOrders'[i].dispatchData.set
                          /\ stateOrders'[i].dispatchData.invoice # ""
                          /\ stateOrders'[i].dispatchData.photo # Null)
        /\ (toast' # toast
              /\ toast'.msg = "Foto del despacho (tipo Mercado Libre) es obligatoria")
              => UNCHANGED << stateOrders, tempDispatchData >> ]_vars


=============================================================================
